---- MODULE Spec2Model ----
\* The namespace debt controller of controllers/account: Reconcile, the Suspend
\* and Resume pipelines, the quota gate and recreatePod, as a state machine over
\* one namespace of the cluster. Every call to the API server is one step, so
\* that the cluster (pod removal, watch events, stream closure, the billing
\* system writing the status marker) interleaves with a reconciliation exactly
\* where it can in the program.
EXTENDS Naturals, Sequences, FiniteSets, TLC

\* ---------------------------------------------------------------- bounds
MaxRuns == 2       \* reconciliations started
MaxCalls == 2      \* calls of the quota functions by each of two concurrent reconciliations

\* ------------------------------------------------------- program constants
DebtLimit0Name == "debt-limit0"
DebtSchedulerName == "sealos-debt-scheduler"
PodPhaseSuspended == "Suspended"
NormalDebtNamespaceAnnoStatus == "Normal"
SuspendDebtNamespaceAnnoStatus == "Suspend"
ResumeDebtNamespaceAnnoStatus == "Resume"
\* the annotation map of the namespace has no debt-status key
NoStatus == "<none>"
\* a value of the key that is none of the three known ones
UnknownStatus == "garbage"
\* what the API server stores for a pod created with an empty schedulerName
DefaultSchedulerName == "default-scheduler"

\* ------------------------------------------------------------ the cluster
\* pods of the namespace with no owner reference, and pods with one
OrphanNames == {"a"}
OwnedNames == {"b"}
Names == OrphanNames \cup OwnedNames
\* List returns the pods in key order
NameSeq == <<"a", "b">>
\* scheduler designators a pod of a tenant is created with
OrigSchedulers == {DefaultSchedulerName, "custom-scheduler"}
\* an owner's pod template may also name the reserved scheduler: resumePod has
\* a branch for pods with an owner that carry it
OwnedSchedulers == OrigSchedulers \cup {DebtSchedulerName}
InitSchedulers(n) == IF n \in OwnedNames THEN OwnedSchedulers ELSE OrigSchedulers

\* a name with no pod behind it
Absent(n) ==
  [name |-> n, exists |-> FALSE, owned |-> FALSE, sched |-> "", hasPrev |-> FALSE,
   prev |-> "", phase |-> "", deleting |-> FALSE]

\* a running pod as the tenant's workload machinery made it
TenantPod(n, s) ==
  [name |-> n, exists |-> TRUE, owned |-> (n \in OwnedNames), sched |-> s,
   hasPrev |-> FALSE, prev |-> "", phase |-> "Running", deleting |-> FALSE]

\* no error returned
NoErr == [call |-> "", cause |-> ""]

NoQuota == [exists |-> FALSE, name |-> "", hard |-> 0, gen |-> 0]

\* GetLimit0ResourceQuota: the zero quota, as stored by its gen-th creation
GetLimit0ResourceQuota(g) == [exists |-> TRUE, name |-> DebtLimit0Name, hard |-> 0, gen |-> g]

\* what Create stores: the server defaults the scheduler, sets the phase to
\* Pending and drops any deletion timestamp of the submitted object
StoredOnCreate(p) ==
  [p EXCEPT !.exists = TRUE,
            !.sched = IF p.sched = "" THEN DefaultSchedulerName ELSE p.sched,
            !.phase = "Pending",
            !.deleting = FALSE]

NoEvent == [type |-> "", isPod |-> FALSE, name |-> "", ns |-> ""]
DeletedEvent(n, where) == [type |-> "DELETED", isPod |-> TRUE, name |-> n, ns |-> where]
ErrorEvent == [type |-> "ERROR", isPod |-> FALSE, name |-> "", ns |-> ""]
\* events a watch of all pods carries besides the removals in the namespace:
\* the removal of a pod of another namespace, and a stream error
ForeignEvents == {DeletedEvent(n, "other") : n \in OrphanNames} \cup {ErrorEvent}

VARIABLES
  status,      \* the debt-status annotation of the namespace
  nsStale,     \* the namespace changed since the reconciliation read it
  pods,        \* name -> pod record of the namespace
  quota,       \* the debt-limit0 ResourceQuota of the namespace
  pc,          \* position of the reconciliation
  debtStatus,  \* Reconcile: the marker it read
  podList,     \* the pod list of the running stage
  idx,         \* index of the pod the stage's loop is at
  oldPod,      \* recreatePod: oldPod
  newPod,      \* recreatePod: newPod
  event,       \* recreatePod: the event last taken from the channel
  ctxDone,     \* resumePod: deleteCtx has expired
  result,      \* what Reconcile returned: "ok" or "err"
  why,         \* the call whose error was returned, and the kind of error
  watchOpen,   \* recreatePod holds a watcher it has not stopped
  ch,          \* events in flight on the watcher's channel
  chClosed,    \* the channel is closed
  leaked,      \* watchers left unstopped by calls that have returned
  runs,        \* reconciliations started
  last,        \* the reconciliation that returned before the running one
  orig,        \* the pods before the first reconciliation
  created,     \* name -> creates issued in suspendOrphanPod and in resumePod
  parkedNow,   \* pods the running reconciliation parked
  quotaGen,    \* creations of the quota record so far
  stagesOk,    \* stages of the running pipeline that returned nil
  wrote,       \* the running reconciliation updated the namespace
  streamEnded, \* a wait of the running reconciliation ended by the channel closing
  touched,     \* the running reconciliation issued a pod or quota write
  queued,      \* the namespace's request in the work queue: "no", or the write that put it there
  calls,       \* two reconciliations in the quota functions: worker -> call
  lastWrite    \* the last write of the quota record they made

ctlVars == <<pc, debtStatus, podList, idx, oldPod, newPod, event, ctxDone, result, why>>
watchVars == <<watchOpen, ch, chClosed, leaked>>
cntVars == <<runs>>
histVars == <<last, orig, created, parkedNow, quotaGen, stagesOk, wrote, streamEnded, touched>>
concVars == <<calls, lastWrite>>
vars == <<status, nsStale, pods, quota, ctlVars, watchVars, cntVars, histVars, queued,
          concVars>>

\* the reconciliations that may be in the quota functions at the same time
Workers == {"w1", "w2"}
NoCall == [fn |-> "", at |-> "idle", err |-> "nil", n |-> 0]

\* ns.Annotations[DebtNamespaceAnnoStatusKey] of a map that may lack the key
MarkerValue(v) == IF v = NoStatus THEN "" ELSE v

\* AnnotationChangedPredicate.Update, on the markers of the old and new object
AnnotationChangedUpdate(old, new) == new # NoStatus /\ MarkerValue(old) # MarkerValue(new)

\* AnnotationChangedPredicate.Create
AnnotationChangedCreate(v) == v # NoStatus

InitStatuses ==
  {NoStatus, NormalDebtNamespaceAnnoStatus, SuspendDebtNamespaceAnnoStatus,
   ResumeDebtNamespaceAnnoStatus, UnknownStatus}

Init ==
  /\ status = NoStatus
  /\ nsStale = FALSE
  /\ \E s \in [Names -> OwnedSchedulers] :
       /\ \A n \in Names : s[n] \in InitSchedulers(n)
       /\ pods = [n \in Names |-> TenantPod(n, s[n])]
  /\ quota = NoQuota
  /\ pc = "idle"
  /\ debtStatus = NoStatus
  /\ podList = <<>>
  /\ idx = 0
  /\ oldPod = Absent("")
  /\ newPod = Absent("")
  /\ event = NoEvent
  /\ ctxDone = FALSE
  /\ result = "ok"
  /\ why = NoErr
  /\ watchOpen = FALSE
  /\ ch = <<>>
  /\ chClosed = FALSE
  /\ leaked = 0
  /\ runs = 0
  /\ last = [kind |-> NoStatus, res |-> "none", why |-> NoErr, ok |-> {}, ended |-> FALSE,
             parked |-> {}]
  /\ orig = pods
  /\ created = [n \in Names |-> [suspend |-> 0, resume |-> 0]]
  /\ parkedNow = {}
  /\ quotaGen = 0
  /\ stagesOk = {}
  /\ wrote = FALSE
  /\ streamEnded = FALSE
  /\ touched = FALSE
  /\ queued = IF AnnotationChangedCreate(status) THEN "ext" ELSE "no"
  /\ calls = [w \in Workers |-> NoCall]
  /\ lastWrite = "none"

\* ------------------------------------------------------------ API server
\* client.List in the namespace: the pods that exist, in key order
ListPods ==
  SelectSeq([i \in 1..Len(NameSeq) |-> pods[NameSeq[i]]], LAMBDA p : p.exists)

\* any call to the API server may fail with a transient error
Transient == TRUE

\* Delete by name fails with NotFound when no pod has the name; otherwise the
\* pod starts terminating (deleting a terminating pod succeeds again)
DeleteFound(n) == pods[n].exists
MarkDeleting(n) == [pods EXCEPT ![n].deleting = TRUE]

\* Create is refused while a pod of the name exists (AlreadyExists) and while
\* the zero quota is in place (admission)
CreateAdmitted(n) == ~pods[n].exists /\ ~quota.exists

\* the kind of error a failing Delete or Create of a pod returns; expired says
\* the call's context has passed its deadline
DeleteCause(n, expired) ==
  IF expired THEN "deadline" ELSE IF ~DeleteFound(n) THEN "notfound" ELSE "transient"
CreateCause(n, expired) ==
  IF expired THEN "deadline"
  ELSE IF pods[n].exists THEN "exists"
  ELSE IF quota.exists THEN "forbidden" ELSE "transient"

\* ------------------------------------------------------ pod classification
\* variant: the loop forgets the pods that are already parked
SkipSuspendOrphan_NoSched(pod) == pod.owned

\* suspendOrphanPod: the pods its loop skips
SkipSuspendOrphan(pod) == pod.sched = DebtSchedulerName \/ pod.owned

\* variant: the loop forgets the pods that carry the reserved scheduler
SkipDeleteControlled_NoSched(pod) == ~pod.owned

\* deleteControlledPod: the pods its loop skips
SkipDeleteControlled(pod) == pod.sched = DebtSchedulerName \/ ~pod.owned

\* resumePod: the pods its loop skips
SkipResume(pod) == pod.phase # PodPhaseSuspended \/ pod.sched # DebtSchedulerName

\* the loop over a list of n pods, from index i: the first index from i on that
\* is in S, the indices of the pods the loop does not skip; n+1 if there is none
NextIdx(S, n, i) ==
  LET T == {j \in S : j >= i}
  IN IF T = {} THEN n + 1 ELSE CHOOSE j \in T : \A k \in T : j <= k

\* suspendOrphanPod: the clone it hands to recreatePod
ParkClone(pod) ==
  [pod EXCEPT !.phase = "", !.sched = DebtSchedulerName, !.hasPrev = TRUE, !.prev = pod.sched]

\* resumePod: the clone it hands to recreatePod
ResumeClone(pod) ==
  IF pod.hasPrev
  THEN [pod EXCEPT !.phase = "", !.sched = pod.prev, !.hasPrev = FALSE, !.prev = ""]
  ELSE [pod EXCEPT !.phase = "", !.sched = ""]

\* variant: any Deleted event of a pod ends the wait
IsMatch_AnyDeleted(e, old) == e.type = "DELETED" /\ e.isPod

\* recreatePod: the event its loop waits for
IsMatch(e, old) == e.type = "DELETED" /\ e.isPod /\ e.name = old.name

\* ------------------------------------------------------------- pipelines
\* variant: the quota is installed before the unmanaged pods are parked
SuspendPipelines_QuotaFirst ==
  <<"limitResourceQuotaCreate", "suspendOrphanPod", "deleteControlledPod">>

\* variant: the managed pods are deleted before the quota is installed
SuspendPipelines_DeleteFirst ==
  <<"suspendOrphanPod", "deleteControlledPod", "limitResourceQuotaCreate">>

\* SuspendUserResource: its pipelines, in order
SuspendPipelines == <<"suspendOrphanPod", "limitResourceQuotaCreate", "deleteControlledPod">>
\* variant: the parked pods are resumed before the quota is removed
ResumePipelines_PodsFirst == <<"resumePod", "limitResourceQuotaDelete">>

\* ResumeUserResource: its pipelines, in order
ResumePipelines == <<"limitResourceQuotaDelete", "resumePod">>

\* where each stage starts
Entry(fn) ==
  CASE fn = "suspendOrphanPod" -> "sop_list"
    [] fn = "limitResourceQuotaCreate" -> "qc_get"
    [] fn = "deleteControlledPod" -> "dcp_list"
    [] fn = "limitResourceQuotaDelete" -> "quota_delete"
    [] fn = "resumePod" -> "rp_list"

\* variant: the Suspend branch writes Normal as the Resume branch does
AfterSuspend_Update == "st_update"

\* Reconcile: where it goes when SuspendUserResource returned nil
AfterSuspend == "done"

\* Reconcile: where it goes when ResumeUserResource returned nil
AfterResume == "st_update"

Pipeline == IF debtStatus = SuspendDebtNamespaceAnnoStatus THEN SuspendPipelines ELSE ResumePipelines

\* the position after stage fn returned nil: the next stage, or back in Reconcile
NextPc(fn) ==
  LET i == CHOOSE j \in 1..Len(Pipeline) : Pipeline[j] = fn
  IN IF i < Len(Pipeline) THEN Entry(Pipeline[i + 1])
     ELSE IF debtStatus = SuspendDebtNamespaceAnnoStatus THEN AfterSuspend ELSE AfterResume

\* variant: the error of a stage is dropped and the pipeline goes on
ErrPc_GoOn(fn) == NextPc(fn)

\* the position after a stage returned err: both pipelines return it, and so does Reconcile
ErrPc(fn) == "done"

StageNil(fn) ==
  /\ stagesOk' = stagesOk \cup {fn}
  /\ pc' = NextPc(fn)
  /\ UNCHANGED <<result, why>>

StageErr(fn, call, cause) ==
  /\ pc' = ErrPc(fn)
  /\ result' = IF pc' = "done" THEN "err" ELSE result
  /\ why' = IF pc' = "done" THEN [call |-> call, cause |-> cause] ELSE why
  /\ UNCHANGED stagesOk

ClearLoop ==
  /\ podList' = <<>>
  /\ idx' = 0
  /\ oldPod' = Absent("")
  /\ newPod' = Absent("")

\* variant: the switch has no default branch
Dispatch_NoDefault(s) ==
  CASE s = SuspendDebtNamespaceAnnoStatus -> Entry(SuspendPipelines[1])
    [] s = ResumeDebtNamespaceAnnoStatus -> Entry(ResumePipelines[1])
    [] OTHER -> "done"

\* variant: the switch has no case for Normal, which falls to the default branch
Dispatch_NoNormalCase(s) ==
  CASE s = NoStatus -> "done"
    [] s = SuspendDebtNamespaceAnnoStatus -> Entry(SuspendPipelines[1])
    [] s = ResumeDebtNamespaceAnnoStatus -> Entry(ResumePipelines[1])
    [] OTHER -> "norm_update"

\* Reconcile: the branch of its switch
Dispatch(s) ==
  CASE s = NoStatus -> "done"
    [] s = SuspendDebtNamespaceAnnoStatus -> Entry(SuspendPipelines[1])
    [] s = ResumeDebtNamespaceAnnoStatus -> Entry(ResumePipelines[1])
    [] s = NormalDebtNamespaceAnnoStatus -> "done"
    [] OTHER -> "norm_update"

\* what is kept of a reconciliation that returned
RunRecord ==
  [kind |-> debtStatus, res |-> result, why |-> why, ok |-> stagesOk,
   ended |-> streamEnded, parked |-> parkedNow]

\* Reconcile up to its switch: Get the namespace, read the marker
ReconcileStart ==
  /\ pc \in {"idle", "done"}
  /\ runs < MaxRuns
  /\ runs' = runs + 1
  /\ queued' = "no"
  /\ last' = IF pc = "done" THEN RunRecord ELSE last
  /\ stagesOk' = {}
  /\ parkedNow' = {}
  /\ wrote' = FALSE
  /\ streamEnded' = FALSE
  /\ touched' = FALSE
  /\ \/ /\ Transient
        /\ debtStatus' = NoStatus
        /\ pc' = "done" /\ result' = "err"
        /\ why' = [call |-> "GetNamespace", cause |-> "transient"]
        /\ UNCHANGED nsStale
     \/ /\ debtStatus' = status
        /\ nsStale' = FALSE
        /\ pc' = Dispatch(status) /\ result' = "ok" /\ why' = NoErr
  /\ UNCHANGED <<status, pods, quota, podList, idx, oldPod, newPod, event, ctxDone,
                 watchVars, orig, created, quotaGen>>
  /\ UNCHANGED concVars

\* ------------------------------------------------------------ quota gate
\* variant: Create is issued without looking for the record
QuotaFound_Never == FALSE

\* CreateOrUpdate: what its Get of the record finds
QuotaFound == quota.exists

\* client.IgnoreNotFound
IgnoreNotFound(err) == IF err = "notfound" THEN "nil" ELSE err

\* limitResourceQuotaCreate, CreateOrUpdate's Get: a record that is found is
\* left as it is (the mutate function changes nothing), a missing one is created
QuotaCreateGet ==
  /\ pc = "qc_get"
  /\ \/ /\ Transient
        /\ StageErr("limitResourceQuotaCreate", "GetQuota", "transient")
     \/ /\ QuotaFound
        /\ StageNil("limitResourceQuotaCreate")
     \/ /\ ~QuotaFound
        /\ pc' = "qc_create"
        /\ UNCHANGED <<result, why, stagesOk>>
  /\ UNCHANGED <<status, nsStale, pods, quota, debtStatus, podList, idx, oldPod, newPod,
                 event, ctxDone, watchVars, runs, last, orig, created, parkedNow,
                 quotaGen, wrote, streamEnded, touched>>
  /\ UNCHANGED <<queued, concVars>>

\* limitResourceQuotaCreate, CreateOrUpdate's Create
QuotaCreateCreate ==
  /\ pc = "qc_create"
  /\ \/ /\ Transient \/ quota.exists
        /\ StageErr("limitResourceQuotaCreate", "CreateQuota",
                    IF quota.exists THEN "exists" ELSE "transient")
        /\ UNCHANGED <<quota, quotaGen, touched>>
     \/ /\ ~quota.exists
        /\ quota' = GetLimit0ResourceQuota(quotaGen + 1)
        /\ quotaGen' = quotaGen + 1
        /\ touched' = TRUE
        /\ StageNil("limitResourceQuotaCreate")
  /\ UNCHANGED <<status, nsStale, pods, debtStatus, podList, idx, oldPod, newPod,
                 event, ctxDone, watchVars, runs, last, orig, created, parkedNow,
                 wrote, streamEnded>>
  /\ UNCHANGED <<queued, concVars>>

\* limitResourceQuotaDelete: Delete, a NotFound error ignored
QuotaDelete ==
  /\ pc = "quota_delete"
  /\ \/ /\ Transient
        /\ StageErr("limitResourceQuotaDelete", "DeleteQuota", "transient")
        /\ UNCHANGED <<quota, touched>>
     \/ /\ quota.exists
        /\ quota' = NoQuota
        /\ touched' = TRUE
        /\ StageNil("limitResourceQuotaDelete")
     \/ /\ ~quota.exists
        /\ IF IgnoreNotFound("notfound") = "nil"
           THEN StageNil("limitResourceQuotaDelete")
           ELSE StageErr("limitResourceQuotaDelete", "DeleteQuota", "notfound")
        /\ UNCHANGED <<quota, touched>>
  /\ UNCHANGED <<status, nsStale, pods, debtStatus, podList, idx, oldPod, newPod,
                 event, ctxDone, watchVars, runs, last, orig, created, parkedNow,
                 quotaGen, wrote, streamEnded>>
  /\ UNCHANGED <<queued, concVars>>

\* ------------------------------------------------------------ the loops
\* suspendOrphanPod's loop from index i of list: hand the next pod that is not
\* skipped to recreatePod, or return nil
SuspendLoop(list, i) ==
  LET j == NextIdx({k \in 1..Len(list) : ~SkipSuspendOrphan(list[k])}, Len(list), i)
  IN IF j > Len(list)
     THEN ClearLoop /\ StageNil("suspendOrphanPod")
     ELSE /\ podList' = list
          /\ idx' = j
          /\ oldPod' = list[j]
          /\ newPod' = ParkClone(list[j])
          /\ pc' = "rp_watch"
          /\ UNCHANGED <<result, why, stagesOk>>

\* deleteControlledPod's loop from index i of list
DeleteControlledLoop(list, i) ==
  LET j == NextIdx({k \in 1..Len(list) : ~SkipDeleteControlled(list[k])}, Len(list), i)
  IN IF j > Len(list)
     THEN ClearLoop /\ StageNil("deleteControlledPod")
     ELSE /\ podList' = list
          /\ idx' = j
          /\ oldPod' = list[j]
          /\ newPod' = Absent("")
          /\ pc' = "dcp_delete"
          /\ UNCHANGED <<result, why, stagesOk>>

\* resumePod's loop from index i of list: a pod with an owner is deleted, one
\* without is handed to recreatePod
ResumeLoop(list, i) ==
  LET j == NextIdx({k \in 1..Len(list) : ~SkipResume(list[k])}, Len(list), i)
  IN IF j > Len(list)
     THEN ClearLoop /\ StageNil("resumePod")
     ELSE /\ podList' = list
          /\ idx' = j
          /\ oldPod' = list[j]
          /\ newPod' = IF list[j].owned THEN Absent("") ELSE ResumeClone(list[j])
          /\ pc' = IF list[j].owned THEN "res_delete" ELSE "rp_watch"
          /\ UNCHANGED <<result, why, stagesOk>>

\* the loop recreatePod returns nil to
CallerLoop(list, i) ==
  IF debtStatus = SuspendDebtNamespaceAnnoStatus THEN SuspendLoop(list, i) ELSE ResumeLoop(list, i)

\* the stage recreatePod was called from
CallerStage ==
  IF debtStatus = SuspendDebtNamespaceAnnoStatus THEN "suspendOrphanPod" ELSE "resumePod"

\* suspendOrphanPod: List, then the loop
SuspendOrphanList ==
  /\ pc = "sop_list"
  /\ \/ /\ Transient
        /\ StageErr("suspendOrphanPod", "List", "transient")
        /\ UNCHANGED <<podList, idx, oldPod, newPod>>
     \/ /\ SuspendLoop(ListPods, 1)
  /\ UNCHANGED <<status, nsStale, pods, quota, debtStatus, event, ctxDone, watchVars,
                 runs, last, orig, created, parkedNow, quotaGen, wrote, streamEnded,
                 touched>>
  /\ UNCHANGED <<queued, concVars>>

\* deleteControlledPod: List, then the loop
DeleteControlledList ==
  /\ pc = "dcp_list"
  /\ \/ /\ Transient
        /\ StageErr("deleteControlledPod", "List", "transient")
        /\ UNCHANGED <<podList, idx, oldPod, newPod>>
     \/ /\ DeleteControlledLoop(ListPods, 1)
  /\ UNCHANGED <<status, nsStale, pods, quota, debtStatus, event, ctxDone, watchVars,
                 runs, last, orig, created, parkedNow, quotaGen, wrote, streamEnded,
                 touched>>
  /\ UNCHANGED <<queued, concVars>>

\* deleteControlledPod: Delete of the pod the loop is at
DeleteControlledDelete ==
  /\ pc = "dcp_delete"
  /\ \/ /\ Transient \/ ~DeleteFound(oldPod.name)
        /\ ClearLoop
        /\ StageErr("deleteControlledPod", "DeletePod", DeleteCause(oldPod.name, FALSE))
        /\ UNCHANGED <<pods, touched>>
     \/ /\ DeleteFound(oldPod.name)
        /\ pods' = MarkDeleting(oldPod.name)
        /\ touched' = TRUE
        /\ DeleteControlledLoop(podList, idx + 1)
  /\ UNCHANGED <<status, nsStale, quota, debtStatus, event, ctxDone, watchVars,
                 runs, last, orig, created, parkedNow, quotaGen, wrote, streamEnded>>
  /\ UNCHANGED <<queued, concVars>>

\* resumePod: List, deleteCtx made, then the loop
ResumeList ==
  /\ pc = "rp_list"
  /\ \/ /\ Transient
        /\ StageErr("resumePod", "List", "transient")
        /\ UNCHANGED <<podList, idx, oldPod, newPod>>
     \/ /\ ResumeLoop(ListPods, 1)
  /\ ctxDone' = FALSE
  /\ UNCHANGED <<status, nsStale, pods, quota, debtStatus, event, watchVars,
                 runs, last, orig, created, parkedNow, quotaGen, wrote, streamEnded,
                 touched>>
  /\ UNCHANGED <<queued, concVars>>

\* resumePod: Delete of a parked pod that has an owner, under deleteCtx
ResumeDelete ==
  /\ pc = "res_delete"
  /\ \/ /\ Transient \/ ctxDone \/ ~DeleteFound(oldPod.name)
        /\ ClearLoop
        /\ StageErr("resumePod", "DeletePod", DeleteCause(oldPod.name, ctxDone))
        /\ UNCHANGED <<pods, touched>>
     \/ /\ ~ctxDone
        /\ DeleteFound(oldPod.name)
        /\ pods' = MarkDeleting(oldPod.name)
        /\ touched' = TRUE
        /\ ResumeLoop(podList, idx + 1)
  /\ UNCHANGED <<status, nsStale, quota, debtStatus, event, ctxDone, watchVars,
                 runs, last, orig, created, parkedNow, quotaGen, wrote, streamEnded>>
  /\ UNCHANGED <<queued, concVars>>

\* ------------------------------------------------------------ recreatePod
\* the watcher of a call that returns without stopping it: one made under
\* deleteCtx ends with resumePod's deferred cancel, one made under Reconcile's
\* context stays open; a stream that has closed is over either way
Abandon ==
  /\ leaked' = IF watchOpen /\ ~chClosed /\ debtStatus = SuspendDebtNamespaceAnnoStatus
               THEN leaked + 1 ELSE leaked
  /\ watchOpen' = FALSE
  /\ ch' = <<>>
  /\ chClosed' = FALSE

\* recreatePod returns err: the caller wraps and returns it
RecreateErr(call, cause) ==
  /\ ClearLoop
  /\ event' = NoEvent
  /\ StageErr(CallerStage, call, cause)

\* recreatePod returns nil: back in the caller's loop, at the next pod
RecreateNil ==
  /\ event' = NoEvent
  /\ CallerLoop(podList, idx + 1)

\* Watch on all pods
RecreateWatch ==
  /\ pc = "rp_watch"
  /\ \/ /\ Transient \/ ctxDone
        /\ RecreateErr("Watch", IF ctxDone THEN "deadline" ELSE "transient")
        /\ UNCHANGED watchVars
     \/ /\ ~ctxDone
        /\ watchOpen' = TRUE
        /\ ch' = <<>>
        /\ chClosed' = FALSE
        /\ pc' = "rp_delete"
        /\ UNCHANGED <<leaked, podList, idx, oldPod, newPod, event, result, why,
                       stagesOk>>
  /\ UNCHANGED <<status, nsStale, pods, quota, debtStatus, ctxDone, runs,
                 last, orig, created, parkedNow, quotaGen, wrote, streamEnded, touched>>
  /\ UNCHANGED <<queued, concVars>>

\* Delete of oldPod
RecreateDelete ==
  /\ pc = "rp_delete"
  /\ \/ /\ Transient \/ ctxDone \/ ~DeleteFound(oldPod.name)
        /\ RecreateErr("DeletePod", DeleteCause(oldPod.name, ctxDone))
        /\ Abandon
        /\ UNCHANGED <<pods, touched>>
     \/ /\ ~ctxDone
        /\ DeleteFound(oldPod.name)
        /\ pods' = MarkDeleting(oldPod.name)
        /\ touched' = TRUE
        /\ pc' = "rp_wait"
        /\ UNCHANGED <<watchVars, podList, idx, oldPod, newPod, event, result, why,
                       stagesOk>>
  /\ UNCHANGED <<status, nsStale, quota, debtStatus, ctxDone, runs,
                 last, orig, created, parkedNow, quotaGen, wrote, streamEnded>>
  /\ UNCHANGED <<queued, concVars>>

\* one pass of the loop over the channel: an event that is not the awaited one
\* is dropped, the awaited one leads to Create
RecreateRecv ==
  /\ pc = "rp_wait"
  /\ ~chClosed
  /\ ch # <<>>
  /\ event' = Head(ch)
  /\ ch' = Tail(ch)
  /\ pc' = IF IsMatch(Head(ch), oldPod) THEN "rp_create" ELSE "rp_wait"
  /\ UNCHANGED <<status, nsStale, pods, quota, debtStatus, podList, idx, oldPod, newPod,
                 ctxDone, result, why, watchOpen, chClosed, leaked, cntVars, histVars>>
  /\ UNCHANGED <<queued, concVars>>

\* the channel is closed: the loop ends and recreatePod returns nil
RecreateChanClosed ==
  /\ pc = "rp_wait"
  /\ chClosed
  /\ streamEnded' = TRUE
  /\ RecreateNil
  /\ Abandon
  /\ UNCHANGED <<status, nsStale, pods, quota, debtStatus, ctxDone, cntVars,
                 last, orig, created, parkedNow, quotaGen, wrote, touched>>
  /\ UNCHANGED <<queued, concVars>>

\* Create of newPod, then watcher.Stop
RecreateCreate ==
  /\ pc = "rp_create"
  /\ \/ /\ Transient \/ ctxDone \/ ~CreateAdmitted(newPod.name)
        /\ RecreateErr("CreatePod", CreateCause(newPod.name, ctxDone))
        /\ Abandon
        /\ UNCHANGED <<pods, created, parkedNow, touched>>
     \/ /\ ~ctxDone
        /\ CreateAdmitted(newPod.name)
        /\ pods' = [pods EXCEPT ![newPod.name] = StoredOnCreate(newPod)]
        /\ created' = IF debtStatus = SuspendDebtNamespaceAnnoStatus
                      THEN [created EXCEPT ![newPod.name].suspend = @ + 1]
                      ELSE [created EXCEPT ![newPod.name].resume = @ + 1]
        /\ parkedNow' = IF debtStatus = SuspendDebtNamespaceAnnoStatus
                        THEN parkedNow \cup {newPod.name} ELSE parkedNow
        /\ touched' = TRUE
        /\ RecreateNil
        /\ watchOpen' = FALSE
        /\ ch' = <<>>
        /\ chClosed' = FALSE
        /\ UNCHANGED <<leaked>>
  /\ UNCHANGED <<status, nsStale, quota, debtStatus, ctxDone, runs,
                 last, orig, quotaGen, wrote, streamEnded>>
  /\ UNCHANGED <<queued, concVars>>

\* ------------------------------------------------------------ Reconcile
\* the update event of a write of the marker goes through the predicate; the
\* request it queues is merged with one that is queued already, and a request
\* an external write had a part in is not the controller's own
Enqueue(old, new, by) ==
  IF AnnotationChangedUpdate(old, new)
  THEN IF queued = "ext" THEN "ext" ELSE by
  ELSE queued

\* the Update of the namespace is refused when the namespace changed since it
\* was read (conflict)
UpdateRefused == nsStale

\* the Resume branch: the marker set to Normal and the namespace updated
StatusUpdate ==
  /\ pc = "st_update"
  /\ \/ /\ Transient \/ UpdateRefused
        /\ pc' = "done" /\ result' = "err"
        /\ why' = [call |-> "UpdateNamespace",
                    cause |-> IF UpdateRefused THEN "conflict" ELSE "transient"]
        /\ UNCHANGED <<status, wrote, queued>>
     \/ /\ ~UpdateRefused
        /\ status' = NormalDebtNamespaceAnnoStatus
        /\ queued' = Enqueue(status, NormalDebtNamespaceAnnoStatus, "self")
        /\ wrote' = TRUE
        /\ pc' = "done"
        /\ UNCHANGED <<result, why>>
  /\ UNCHANGED <<nsStale, pods, quota, debtStatus, podList, idx, oldPod, newPod, event,
                 ctxDone, watchVars, runs, last, orig, created, parkedNow, quotaGen,
                 stagesOk, streamEnded, touched>>
  /\ UNCHANGED concVars

\* the default branch: the marker set to Normal and the namespace updated
NormalizeUpdate ==
  /\ pc = "norm_update"
  /\ \/ /\ Transient \/ UpdateRefused
        /\ pc' = "done" /\ result' = "err"
        /\ why' = [call |-> "UpdateNamespace",
                    cause |-> IF UpdateRefused THEN "conflict" ELSE "transient"]
        /\ UNCHANGED <<status, wrote, queued>>
     \/ /\ ~UpdateRefused
        /\ status' = NormalDebtNamespaceAnnoStatus
        /\ queued' = Enqueue(status, NormalDebtNamespaceAnnoStatus, "self")
        /\ wrote' = TRUE
        /\ pc' = "done"
        /\ UNCHANGED <<result, why>>
  /\ UNCHANGED <<nsStale, pods, quota, debtStatus, podList, idx, oldPod, newPod, event,
                 ctxDone, watchVars, runs, last, orig, created, parkedNow, quotaGen,
                 stagesOk, streamEnded, touched>>
  /\ UNCHANGED concVars

\* ------------------------------------------------------------ the cluster
\* a terminating pod is removed; an open watch carries the Deleted event
PodRemoved(n) ==
  /\ pods[n].exists
  /\ pods[n].deleting
  /\ pods' = [pods EXCEPT ![n] = Absent(n)]
  /\ ch' = IF watchOpen /\ ~chClosed THEN Append(ch, DeletedEvent(n, "this")) ELSE ch
  /\ UNCHANGED <<status, nsStale, quota, ctlVars, watchOpen, chClosed, leaked, cntVars,
                 histVars>>
  /\ UNCHANGED <<queued, concVars>>

\* an open watch carries an event that is not a removal in the namespace
ForeignEvent(e) ==
  /\ watchOpen
  /\ ~chClosed
  /\ \A i \in 1..Len(ch) : ch[i] \notin ForeignEvents
  /\ ch' = Append(ch, e)
  /\ UNCHANGED <<status, nsStale, pods, quota, ctlVars, watchOpen, chClosed, leaked,
                 runs, histVars>>
  /\ UNCHANGED <<queued, concVars>>

\* the server or the network ends the stream of an open watch
StreamClosed ==
  /\ watchOpen
  /\ ~chClosed
  /\ chClosed' = TRUE
  /\ ch' = <<>>
  /\ UNCHANGED <<status, nsStale, pods, quota, ctlVars, watchOpen, leaked, cntVars,
                 histVars>>
  /\ UNCHANGED <<queued, concVars>>

\* variant: resumePod hands Reconcile's own context to its calls, no deadline
DeadlineExpires_Unbounded == FALSE /\ UNCHANGED vars

\* the deadline of deleteCtx passes while resumePod runs: calls under it fail
\* from now on and a watch made under it ends
DeadlineExpires ==
  /\ pc \in {"res_delete", "rp_watch", "rp_delete", "rp_wait", "rp_create"}
  /\ debtStatus = ResumeDebtNamespaceAnnoStatus
  /\ ~ctxDone
  /\ ctxDone' = TRUE
  /\ chClosed' = (chClosed \/ watchOpen)
  /\ ch' = <<>>
  /\ UNCHANGED <<status, nsStale, pods, quota, pc, debtStatus, podList, idx, oldPod,
                 newPod, event, result, why, watchOpen, leaked, cntVars, histVars>>
  /\ UNCHANGED <<queued, concVars>>

\* a parked pod is reported in the Suspended phase
PodSuspended(n) ==
  /\ pods[n].exists
  /\ ~pods[n].deleting
  /\ pods[n].sched = DebtSchedulerName
  /\ pods[n].phase # PodPhaseSuspended
  /\ pods' = [pods EXCEPT ![n].phase = PodPhaseSuspended]
  /\ UNCHANGED <<status, nsStale, quota, ctlVars, watchVars, cntVars, histVars>>
  /\ UNCHANGED <<queued, concVars>>

\* the billing system writes the status marker
BillingWrites(v) ==
  /\ v # status
  /\ status' = v
  /\ nsStale' = TRUE
  /\ queued' = Enqueue(status, v, "ext")
  /\ UNCHANGED <<pods, quota, ctlVars, watchVars, runs, histVars>>
  /\ UNCHANGED concVars

BillingValues ==
  {NormalDebtNamespaceAnnoStatus, SuspendDebtNamespaceAnnoStatus,
   ResumeDebtNamespaceAnnoStatus, UnknownStatus}

Next ==
  \/ ReconcileStart
  \/ SuspendOrphanList
  \/ QuotaCreateGet
  \/ QuotaCreateCreate
  \/ DeleteControlledList
  \/ DeleteControlledDelete
  \/ QuotaDelete
  \/ ResumeList
  \/ ResumeDelete
  \/ RecreateWatch
  \/ RecreateDelete
  \/ RecreateRecv
  \/ RecreateChanClosed
  \/ RecreateCreate
  \/ StatusUpdate
  \/ NormalizeUpdate
  \/ \E n \in Names : PodRemoved(n)
  \/ \E e \in ForeignEvents : ForeignEvent(e)
  \/ StreamClosed
  \/ DeadlineExpires
  \/ \E n \in Names : PodSuspended(n)
  \/ \E v \in BillingValues : BillingWrites(v)

Spec == Init /\ [][Next]_vars

\* a step of the reconciliation that is running: a call to the API server that
\* returns, or a pass of the loop over the watch channel
Step ==
  \/ SuspendOrphanList
  \/ QuotaCreateGet
  \/ QuotaCreateCreate
  \/ DeleteControlledList
  \/ DeleteControlledDelete
  \/ QuotaDelete
  \/ ResumeList
  \/ ResumeDelete
  \/ RecreateWatch
  \/ RecreateDelete
  \/ RecreateRecv
  \/ RecreateChanClosed
  \/ RecreateCreate
  \/ StatusUpdate
  \/ NormalizeUpdate

\* ------------------------------------------- one reconciliation, going on
\* an unmanaged pod as suspendOrphanPod leaves it, and a pod under the reserved
\* scheduler once it is reported in the Suspended phase
Parked(p) == StoredOnCreate(ParkClone(p))
ReportedSuspended(p) == [p EXCEPT !.phase = PodPhaseSuspended]

\* what a reconciliation may find under name n: the tenant's pod, the pod as
\* an earlier Suspend run parked it, either of them reported Suspended when it
\* carries the reserved scheduler
StartPods(n) ==
  LET T == {TenantPod(n, s) : s \in InitSchedulers(n)}
      P == IF n \in OrphanNames THEN {Parked(p) : p \in T} ELSE {}
      D == {p \in T \cup P : p.sched = DebtSchedulerName}
  IN T \cup P \cup {ReportedSuspended(p) : p \in D}

\* Reconcile at its switch: it has read the marker of a namespace that earlier
\* reconciliations may have suspended
FairInit ==
  /\ status \in {SuspendDebtNamespaceAnnoStatus, ResumeDebtNamespaceAnnoStatus, UnknownStatus}
  /\ nsStale = FALSE
  /\ pods \in [Names -> UNION {StartPods(n) : n \in Names}]
  /\ \A n \in Names : pods[n] \in StartPods(n)
  /\ quota \in {NoQuota, GetLimit0ResourceQuota(1)}
  /\ pc = Dispatch(status)
  /\ debtStatus = status
  /\ podList = <<>>
  /\ idx = 0
  /\ oldPod = Absent("")
  /\ newPod = Absent("")
  /\ event = NoEvent
  /\ ctxDone = FALSE
  /\ result = "ok"
  /\ why = NoErr
  /\ watchOpen = FALSE
  /\ ch = <<>>
  /\ chClosed = FALSE
  /\ leaked = 0
  /\ runs = 1
  /\ last = [kind |-> NoStatus, res |-> "none", why |-> NoErr, ok |-> {}, ended |-> FALSE,
             parked |-> {}]
  /\ orig = pods
  /\ created = [n \in Names |-> [suspend |-> IF pods[n].hasPrev THEN 1 ELSE 0, resume |-> 0]]
  /\ parkedNow = {}
  /\ quotaGen = quota.gen
  /\ stagesOk = {}
  /\ wrote = FALSE
  /\ streamEnded = FALSE
  /\ touched = FALSE
  /\ queued = "no"
  /\ calls = [w \in Workers |-> NoCall]
  /\ lastWrite = "none"

\* the steps of that reconciliation, and the cluster around it
FairNext ==
  \/ Step
  \/ \E n \in Names : PodRemoved(n)
  \/ \E e \in ForeignEvents : ForeignEvent(e)
  \/ StreamClosed
  \/ DeadlineExpires
  \/ \E n \in Names : PodSuspended(n)
  \/ \E v \in BillingValues : BillingWrites(v)

\* the running reconciliation goes on: its calls return, it reads the channel
\* when there is something to read, and the timer of deleteCtx fires. Nothing
\* is assumed of the cluster: a terminating pod may never be removed and the
\* stream may never be closed.
FairSpec == FairInit /\ [][FairNext]_vars /\ WF_vars(Step) /\ WF_vars(DeadlineExpires)

\* ------------------------------- two reconciliations in the quota functions
\* what the calls of the quota functions leave alone
quotaRest ==
  <<status, nsStale, pods, ctlVars, watchVars, cntVars, last, orig, created, parkedNow,
    stagesOk, wrote, streamEnded, touched, queued>>

QuotaFns == {"limitResourceQuotaCreate", "limitResourceQuotaDelete"}

\* the call of worker w returns err
Returns(w, err) == calls' = [calls EXCEPT ![w].at = "done", ![w].err = err]

\* worker w enters limitResourceQuotaCreate or limitResourceQuotaDelete
LimitCall(w, fn) ==
  /\ calls[w].at \in {"idle", "done"}
  /\ calls[w].n < MaxCalls
  /\ calls' = [calls EXCEPT ![w] = [fn |-> fn,
                                     at |-> IF fn = "limitResourceQuotaCreate"
                                            THEN "get" ELSE "delete",
                                     err |-> "nil", n |-> calls[w].n + 1]]
  /\ UNCHANGED <<quota, quotaGen, lastWrite, quotaRest>>

\* limitResourceQuotaCreate of worker w, CreateOrUpdate's Get
LimitCreateGet(w) ==
  /\ calls[w].at = "get"
  /\ \/ Transient /\ Returns(w, "transient")
     \/ QuotaFound /\ Returns(w, "nil")
     \/ ~QuotaFound /\ calls' = [calls EXCEPT ![w].at = "create"]
  /\ UNCHANGED <<quota, quotaGen, lastWrite, quotaRest>>

\* limitResourceQuotaCreate of worker w, CreateOrUpdate's Create: the server
\* refuses it with AlreadyExists when the record exists by now
LimitCreateCreate(w) ==
  /\ calls[w].at = "create"
  /\ \/ /\ Transient \/ quota.exists
        /\ Returns(w, IF quota.exists THEN "exists" ELSE "transient")
        /\ UNCHANGED <<quota, quotaGen, lastWrite>>
     \/ /\ ~quota.exists
        /\ quota' = GetLimit0ResourceQuota(quotaGen + 1)
        /\ quotaGen' = quotaGen + 1
        /\ lastWrite' = "create"
        /\ Returns(w, "nil")
  /\ UNCHANGED quotaRest

\* limitResourceQuotaDelete of worker w: Delete, a NotFound error ignored
LimitDelete(w) ==
  /\ calls[w].at = "delete"
  /\ \/ /\ Transient
        /\ Returns(w, "transient")
        /\ UNCHANGED <<quota, lastWrite>>
     \/ /\ quota.exists
        /\ quota' = NoQuota
        /\ lastWrite' = "delete"
        /\ Returns(w, "nil")
     \/ /\ ~quota.exists
        /\ Returns(w, IgnoreNotFound("notfound"))
        /\ UNCHANGED <<quota, lastWrite>>
  /\ UNCHANGED <<quotaGen, quotaRest>>

QuotaNext ==
  \/ \E w \in Workers, fn \in QuotaFns : LimitCall(w, fn)
  \/ \E w \in Workers : LimitCreateGet(w)
  \/ \E w \in Workers : LimitCreateCreate(w)
  \/ \E w \in Workers : LimitDelete(w)

\* no reconciliation anywhere else than in the quota functions
QuotaSpec == Init /\ [][QuotaNext]_vars

\* ================================================================ claims
InRecreate == pc \in {"rp_watch", "rp_delete", "rp_wait", "rp_create"}
BothResumeStages == {"limitResourceQuotaDelete", "resumePod"}
Recreations(n) == created[n].suspend + created[n].resume

\* C1: recreatePod issues the Create of the new pod only after it took from the
\* channel of the watch it opened itself a Deleted event of a pod whose name is
\* the old pod's; no create is counted from any other position.
C1_CreateAfterDeleted ==
  /\ [](pc = "rp_create" =>
          /\ watchOpen
          /\ event.type = "DELETED" /\ event.isPod /\ event.name = oldPod.name
          /\ newPod.name = oldPod.name)
  /\ [][created' # created => pc = "rp_create" /\ event.name = oldPod.name]_vars

C1_Witness ==
  /\ pc = "dcp_list"
  /\ pods["a"].exists /\ pods["a"].sched = DebtSchedulerName
  /\ created["a"].suspend = 1

\* C2 (as claimed): once a wait of recreatePod has ended because the channel was
\* closed, the reconciliation has returned an error and has not written Normal.
C2_StreamEndIsError ==
  streamEnded => pc = "done" /\ result = "err" /\ ~wrote

\* C3 (as claimed): after a successful Suspend reconciliation followed by a
\* successful Resume reconciliation (no stream closed, no write of the billing
\* system in between), every unmanaged pod exists with its original scheduler,
\* without the previous-scheduler annotation, recreated exactly twice, the quota
\* is absent and the marker is Normal.
C3_RoundTrip ==
  ( /\ pc = "done" /\ runs = 2
    /\ debtStatus = ResumeDebtNamespaceAnnoStatus /\ result = "ok" /\ ~streamEnded
    /\ last.kind = SuspendDebtNamespaceAnnoStatus /\ last.res = "ok" /\ ~last.ended
    /\ last.parked = OrphanNames
    /\ ~nsStale )
  => /\ \A n \in OrphanNames :
          /\ pods[n].exists
          /\ pods[n].sched = orig[n].sched
          /\ ~pods[n].hasPrev
          /\ Recreations(n) = 2
     /\ ~quota.exists
     /\ status = NormalDebtNamespaceAnnoStatus

\* C4: when a Suspend run parked every unmanaged pod and then failed installing
\* the quota, the next Suspend run, if it succeeds, parks nothing again and ends
\* with the quota present, every unmanaged pod parked with its original
\* scheduler saved, and every managed pod that does not carry the reserved
\* scheduler deleted.
C4_SuspendReentrant ==
  ( /\ pc = "done"
    /\ debtStatus = SuspendDebtNamespaceAnnoStatus /\ result = "ok"
    /\ last.kind = SuspendDebtNamespaceAnnoStatus /\ last.res = "err"
    /\ last.why.call \in {"GetQuota", "CreateQuota"}
    /\ last.parked = OrphanNames )
  => /\ quota = GetLimit0ResourceQuota(quotaGen)
     /\ parkedNow = {}
     /\ \A n \in OrphanNames :
          /\ pods[n].exists /\ ~pods[n].deleting
          /\ pods[n].sched = DebtSchedulerName
          /\ pods[n].hasPrev /\ pods[n].prev = orig[n].sched
          /\ created[n].suspend = created[n].resume + 1
     /\ \A n \in OwnedNames :
          orig[n].sched # DebtSchedulerName => (~pods[n].exists \/ pods[n].deleting)

C4_Witness ==
  /\ pc = "done"
  /\ debtStatus = SuspendDebtNamespaceAnnoStatus /\ result = "ok"
  /\ last.kind = SuspendDebtNamespaceAnnoStatus /\ last.res = "err"
  /\ last.why.call = "CreateQuota"
  /\ last.parked = OrphanNames
  /\ quota.exists
  /\ orig["b"].sched # DebtSchedulerName

\* C5 (as claimed): when a pipeline run failed in recreatePod's Create and the
\* same pipeline is run again and succeeds, every unmanaged pod that existed
\* before the first run exists.
C5_NoPodLost ==
  ( /\ pc = "done" /\ runs = 2
    /\ debtStatus \in {SuspendDebtNamespaceAnnoStatus, ResumeDebtNamespaceAnnoStatus}
    /\ result = "ok" /\ ~streamEnded
    /\ last.kind = debtStatus /\ last.res = "err" /\ ~last.ended
    /\ last.why.call = "CreatePod" )
  => \A n \in OrphanNames : orig[n].exists => pods[n].exists

\* C6: a reconciliation that read ResumeRequested has written the marker only
\* when both stages of the Resume pipeline returned nil, and then it wrote
\* Normal; when a stage returned an error, Reconcile returned that error and
\* wrote nothing.
C6_NormalOnlyAfterResume ==
  /\ [](debtStatus = ResumeDebtNamespaceAnnoStatus /\ wrote
          => stagesOk = BothResumeStages /\ pc = "done" /\ result = "ok")
  /\ [](debtStatus = ResumeDebtNamespaceAnnoStatus /\ pc \in {"st_update", "done"}
          /\ stagesOk # BothResumeStages
          => pc = "done" /\ result = "err" /\ ~wrote)
  /\ [][debtStatus = ResumeDebtNamespaceAnnoStatus /\ ~wrote /\ wrote'
          => pc = "st_update" /\ status' = NormalDebtNamespaceAnnoStatus]_vars

C6_Witness ==
  /\ pc = "done"
  /\ debtStatus = ResumeDebtNamespaceAnnoStatus
  /\ wrote /\ status = NormalDebtNamespaceAnnoStatus
  /\ created["a"].resume = 1

\* C7: a reconciliation that read a marker other than Normal, SuspendRequested
\* and ResumeRequested issues no pod and no quota write, and when it returns nil
\* it has written Normal to the marker.
C7_UnknownNormalized ==
  /\ [](debtStatus = UnknownStatus =>
          /\ ~touched
          /\ pc \in {"norm_update", "done"}
          /\ (pc = "done" /\ result = "ok" => wrote)
          /\ (wrote /\ ~nsStale => status = NormalDebtNamespaceAnnoStatus))
  /\ [][debtStatus' = UnknownStatus /\ pc' # pc =>
          /\ pods' = pods /\ quota' = quota
          /\ (pc = "norm_update" /\ result' = "ok" => status' = NormalDebtNamespaceAnnoStatus)]_vars

C7_Witness ==
  /\ pc = "done" /\ debtStatus = UnknownStatus /\ result = "ok"
  /\ wrote /\ status = NormalDebtNamespaceAnnoStatus

\* C8: a reconciliation that read SuspendRequested, Normal or no marker never
\* writes the marker, whether it succeeds or fails; one that read Normal or no
\* marker issues no pod and no quota write either.
C8_MarkerLeftAlone ==
  /\ debtStatus \in {SuspendDebtNamespaceAnnoStatus, NormalDebtNamespaceAnnoStatus, NoStatus}
       => ~wrote /\ pc \notin {"st_update", "norm_update"}
  /\ debtStatus \in {NormalDebtNamespaceAnnoStatus, NoStatus}
       => ~touched /\ pc \in {"idle", "done"}
  /\ (~wrote /\ ~nsStale /\ pc # "idle" /\ result = "ok") => status = debtStatus

C8_Witness ==
  /\ pc = "done" /\ debtStatus = SuspendDebtNamespaceAnnoStatus /\ result = "ok"
  /\ touched /\ ~nsStale /\ status = SuspendDebtNamespaceAnnoStatus
  /\ quota.exists

\* C9: limitResourceQuotaCreate entered while the record exists leaves the
\* record as it is and returns nil unless its Get fails with a transient error;
\* limitResourceQuotaDelete entered while the record is absent leaves it absent
\* and returns nil unless its Delete fails with a transient error.
C9_QuotaGateIdempotent ==
  [][ /\ (pc = "qc_get" /\ quota.exists) =>
           /\ quota' = quota
           /\ pc' \in {"qc_get", "dcp_list", "done"}
           /\ (pc' = "done" => result' = "err" /\ why'.cause = "transient")
      /\ (pc = "quota_delete" /\ ~quota.exists) =>
           /\ quota' = quota
           /\ pc' \in {"quota_delete", "rp_list", "done"}
           /\ (pc' = "done" => result' = "err" /\ why'.cause = "transient") ]_vars

C9_Witness ==
  /\ pc = "dcp_list" /\ ~touched
  /\ quota = GetLimit0ResourceQuota(1)
  /\ "limitResourceQuotaCreate" \in stagesOk
  /\ last.kind = SuspendDebtNamespaceAnnoStatus /\ last.res = "ok"

\* C10: in a Suspend run neither recreatePod nor deleteControlledPod is handed a
\* pod that carries the reserved scheduler; no pod's previous-scheduler
\* annotation holds the reserved scheduler; and a pod is parked at most once
\* more often than it was resumed.
C10_ParkedOnce ==
  /\ (debtStatus = SuspendDebtNamespaceAnnoStatus /\ (InRecreate \/ pc = "dcp_delete"))
       => /\ oldPod.sched # DebtSchedulerName
          /\ (pods[oldPod.name].exists => pods[oldPod.name].sched # DebtSchedulerName)
  /\ \A n \in Names :
       /\ pods[n].hasPrev => pods[n].prev # DebtSchedulerName
       /\ created[n].suspend <= created[n].resume + 1
       /\ (pods[n].exists /\ pods[n].sched = DebtSchedulerName /\ ~pods[n].owned)
            => created[n].suspend = created[n].resume + 1

C10_Witness ==
  /\ pc = "done" /\ debtStatus = SuspendDebtNamespaceAnnoStatus /\ result = "ok"
  /\ last.kind = SuspendDebtNamespaceAnnoStatus /\ last.res = "ok"
  /\ last.parked = {"a"} /\ parkedNow = {}
  /\ pods["a"].exists /\ pods["a"].sched = DebtSchedulerName
  /\ created["a"].suspend = 1

\* C11 (as claimed): no reconciliation returns the NotFound error of a Delete of
\* a pod: a pod that was listed and is gone when suspendOrphanPod (through
\* recreatePod), deleteControlledPod or resumePod issue their Delete aborts
\* no pipeline.
C11_NotFoundSwallowed ==
  ~(pc = "done" /\ result = "err" /\ why.call = "DeletePod" /\ why.cause = "notfound")

\* C12 (as claimed): when a Resume reconciliation has returned nil (no wait of
\* it ended by the channel closing), every pod of the namespace that carries
\* the reserved scheduler is being deleted: the managed ones were deleted, the
\* unmanaged ones were recreated under their previous scheduler, whatever the
\* phase they were in.
C12_ResumeActsOnAllParked ==
  (pc = "done" /\ debtStatus = ResumeDebtNamespaceAnnoStatus /\ result = "ok" /\ ~streamEnded)
  => \A n \in Names :
       (pods[n].exists /\ pods[n].sched = DebtSchedulerName) => pods[n].deleting

C15_QuotaRemovedFirst ==
  debtStatus = ResumeDebtNamespaceAnnoStatus =>
    /\ (pc = "quota_delete" => stagesOk = {} /\ ~touched)
    /\ ("limitResourceQuotaDelete" \notin stagesOk =>
          /\ pc \in {"quota_delete", "done"}
          /\ parkedNow = {} /\ ~wrote
          /\ (pc = "done" =>
                /\ ~touched
                /\ result = "err" /\ why.call = "DeleteQuota"
                /\ (~nsStale => status = ResumeDebtNamespaceAnnoStatus)))
    /\ (pc \in {"rp_list", "res_delete", "rp_watch", "rp_delete", "rp_wait", "rp_create"}
          => "limitResourceQuotaDelete" \in stagesOk /\ ~quota.exists)

C15_Witness ==
  /\ debtStatus = ResumeDebtNamespaceAnnoStatus /\ pc = "done"
  /\ result = "err" /\ why.call = "DeleteQuota"
  /\ quota.exists /\ status = ResumeDebtNamespaceAnnoStatus
  /\ pods["a"].exists /\ pods["a"].sched = DebtSchedulerName
  /\ pods["a"].phase = PodPhaseSuspended /\ ~pods["a"].deleting

\* C16 (as claimed): recreatePod goes on to its Create only once the old pod is
\* gone from the namespace: an event of another namespace, or of another pod,
\* never brings it there while the old pod exists.
C16_CreateOnlyAfterOwnDeletion ==
  pc = "rp_create" => ~pods[oldPod.name].exists

\* C19 (as claimed): a call of recreatePod that has returned has left no
\* watcher open: none is left unstopped on any return path.
C19_WatcherStopped ==
  leaked = 0

\* recreatePod waits on an open channel that holds no Deleted event of the old pod
SilentWait ==
  /\ pc = "rp_wait"
  /\ ~chClosed
  /\ \A i \in 1..Len(ch) : ~IsMatch(ch[i], oldPod)

Running == pc \notin {"idle", "done"}

\* C17: a Resume run that goes on returns, whatever the cluster does, since
\* deleteCtx expires; a Suspend run returns if it is not left for ever waiting
\* on an open channel without the Deleted event of the old pod; and in that
\* wait, with the channel empty, a Suspend run can take no step and no deadline
\* is there to end it.
C17_ResumeBoundedSuspendNot ==
  /\ (debtStatus = ResumeDebtNamespaceAnnoStatus /\ Running) ~> (pc = "done")
  /\ ([]<>~(SilentWait /\ debtStatus = SuspendDebtNamespaceAnnoStatus))
       => ((debtStatus = SuspendDebtNamespaceAnnoStatus /\ Running) ~> (pc = "done"))
  /\ []((SilentWait /\ ch = <<>> /\ debtStatus = SuspendDebtNamespaceAnnoStatus)
          => ~ENABLED Step /\ ~ENABLED DeadlineExpires)

C17_Witness ==
  /\ SilentWait /\ ch = <<>>
  /\ debtStatus = SuspendDebtNamespaceAnnoStatus
  /\ pods["a"].exists /\ pods["a"].deleting

\* C18 (as claimed): however the steps of two reconciliations in
\* limitResourceQuotaCreate and limitResourceQuotaDelete interleave, a call
\* returns nil unless the API server failed it with a transient error, and the
\* record exists exactly when the last write of it was a creation.
C18_QuotaNeedsNoLock ==
  /\ \A w \in Workers : calls[w].at = "done" => calls[w].err \in {"nil", "transient"}
  /\ lastWrite = "create" => quota.exists
  /\ lastWrite = "delete" => ~quota.exists

\* C20: the request in the queue is the controller's own only right after its
\* write of Normal at the end of a Resume run or of a run that read an
\* unrecognized marker; the reconciliation that takes that request is over in
\* its first step, having read Normal (or failed to read the namespace), with
\* no pod, quota or marker write, and it queues nothing; a reconciliation that
\* read Suspend, Normal or no marker never queues a request of its own.
C20_Quiesces ==
  /\ [](queued = "self" =>
          /\ pc = "done" /\ result = "ok" /\ wrote /\ ~nsStale
          /\ status = NormalDebtNamespaceAnnoStatus
          /\ debtStatus \in {ResumeDebtNamespaceAnnoStatus, UnknownStatus})
  /\ [][queued = "self" /\ runs' # runs =>
          /\ queued' = "no"
          /\ pc' = "done" /\ ~wrote' /\ ~touched'
          /\ debtStatus' \in {NormalDebtNamespaceAnnoStatus, NoStatus}
          /\ status' = status /\ pods' = pods /\ quota' = quota]_vars
  /\ [](debtStatus \in {SuspendDebtNamespaceAnnoStatus, NormalDebtNamespaceAnnoStatus, NoStatus}
          => queued # "self")

C20_Witness ==
  /\ queued = "self"
  /\ debtStatus = ResumeDebtNamespaceAnnoStatus
  /\ touched /\ pods["b"].deleting
  /\ runs < MaxRuns
====
